---- MODULE Spec2Model ----
(***************************************************************************)
(* A model of src/src/utils/timers.ts: the timer registry, the span        *)
(* registry, the rebindable timeStart/timeEnd slots, the label formatter,  *)
(* the plugin instrumenter and initialiseTimers.                           *)
(*                                                                         *)
(* The runtime is Node: process.hrtime and process.memoryUsage exist, so   *)
(* setTimeHelpers installs the real clock and the real memory sampler.     *)
(* The clock is the integer `now` (whole milliseconds, monotonic: an       *)
(* hrtime pair after normalizeHrTime); a heap reading is an input of the   *)
(* call that takes it.  A hook is the plugin author's code: it does not    *)
(* call back into this module.                                             *)
(***************************************************************************)
EXTENDS Integers, Sequences, FiniteSets, TLC

VARIABLES
    timeStart,   \* the exported slot: "NOOP", "timeStartImpl", "timeStartTraceImpl"
    timeEnd,     \* the exported slot: "NOOP", "timeEndImpl", "timeEndTraceImpl"
    helpers,     \* getStartTime/getElapsedTime/getMemory: "stub" or "set"
    timers,      \* persisted label -> Timer
    spans,       \* label -> Span
    options,     \* the inputOptions object of the latest initialiseTimers call
    given,       \* the plugin list that call was handed
    built,       \* the wrappers constructed so far (they outlive an activation)
    pending,     \* wrapper label -> number of its deferred results not yet settled
    now,         \* the monotonic clock
    cycles,      \* per persisted label: the start/end cycles seen in this activation
    last,        \* the latest call and how it came back
    fmtIn,       \* the formatter's input, for the formatter on its own
    fmtOut,      \* and its result
    calls        \* how many calls have been made

vars == <<timeStart, timeEnd, helpers, timers, spans, options, given, built,
          pending, now, cycles, last, fmtIn, fmtOut, calls>>

(***************************************************************************)
(* Bounds of the model.                                                    *)
(***************************************************************************)
MaxCalls == 4       \* calls made on the module in one run
MaxCycleCalls == 6  \* the same, where only the timer registry is exercised
MaxLevel == 6       \* formatter levels tried are 0..MaxLevel

NoValue == 0 - 1    \* JavaScript's undefined, where a number is expected
Samples == {0, 1}   \* heap readings

Max(a, b) == IF a >= b THEN a ELSE b

EmptyMap == [k \in {} |-> 0]
Put(f, k, v) == [x \in (DOMAIN f) \cup {k} |-> IF x = k THEN v ELSE f[x]]
hasOwnProperty(f, k) == k \in DOMAIN f

(***************************************************************************)
(* getPersistedLabel, lines 48-59.  String.prototype.repeat raises a       *)
(* RangeError on a negative count.                                         *)
(***************************************************************************)
RECURSIVE repeat(_, _)
repeat(s, count) == IF count <= 0 THEN "" ELSE s \o repeat(s, count - 1)

repeatThrows(count) == count < 0

Returned(v) == [threw |-> FALSE, value |-> v]
Raised(e) == [threw |-> TRUE, value |-> e]

\* the bullet indented one step too far
getPersistedLabelIndented(label, level) ==
    CASE level = 1 -> Returned("# " \o label)
      [] level = 2 -> Returned("## " \o label)
      [] level = 3 -> Returned(label)
      [] OTHER -> IF repeatThrows(level - 3)
                  THEN Raised("RangeError")
                  ELSE Returned(repeat("  ", level - 3) \o "- " \o label)

\* the bullet never indented
getPersistedLabelFlat(label, level) ==
    CASE level = 1 -> Returned("# " \o label)
      [] level = 2 -> Returned("## " \o label)
      [] level = 3 -> Returned(label)
      [] OTHER -> Returned("- " \o label)

getPersistedLabel(label, level) ==
    CASE level = 1 -> Returned("# " \o label)
      [] level = 2 -> Returned("## " \o label)
      [] level = 3 -> Returned(label)
      [] OTHER -> IF repeatThrows(level - 4)
                  THEN Raised("RangeError")
                  ELSE Returned(repeat("  ", level - 4) \o "- " \o label)

\* the parameter default `level = 3` of timeStartImpl and timeEndImpl
defaultLevel(level) == IF level = NoValue THEN 3 ELSE level

(***************************************************************************)
(* The time helpers, lines 26-46.  Before setTimeHelpers runs they are the *)
(* stubs of lines 27-29; afterwards they read the clock and the heap.      *)
(* `t` is the clock's reading and `m` the heap's at the moment of the call.*)
(***************************************************************************)
getStartTime(h, t) == IF h = "set" THEN t ELSE 0
\* elapsed time with the operands swapped
getElapsedTimeBackwards(h, t, previous) == IF h = "set" THEN previous - t ELSE 0
getElapsedTime(h, t, previous) == IF h = "set" THEN t - previous ELSE 0
getMemory(h, m) == IF h = "set" THEN m ELSE 0

(***************************************************************************)
(* The timer registry, lines 61-93.                                        *)
(***************************************************************************)
newTimer ==
    [memory |-> 0, startMemory |-> NoValue, startTime |-> NoValue,
     time |-> 0, totalMemory |-> 0]

\* a timeStart that starts every interval from a new record
timeStartImplReset(tm, h, label, level, t, m) ==
    LET persisted == getPersistedLabel(label, defaultLevel(level)) IN
    IF persisted.threw
    THEN [threw |-> TRUE, timers |-> tm]
    ELSE [threw |-> FALSE,
          timers |-> Put(tm, persisted.value,
                         [newTimer EXCEPT !.startTime = getStartTime(h, t),
                                          !.startMemory = getMemory(h, m)])]

timeStartImpl(tm, h, label, level, t, m) ==
    LET persisted == getPersistedLabel(label, defaultLevel(level)) IN
    IF persisted.threw
    THEN [threw |-> TRUE, timers |-> tm]
    ELSE LET key == persisted.value
             timer == IF hasOwnProperty(tm, key) THEN tm[key] ELSE newTimer
             currentMemory == getMemory(h, m)
         IN [threw |-> FALSE,
             timers |-> Put(tm, key, [timer EXCEPT !.startTime = getStartTime(h, t),
                                                   !.startMemory = currentMemory])]

\* `=` where the code has `+=`
timeEndImplOverwrite(tm, h, label, level, t, m) ==
    LET persisted == getPersistedLabel(label, defaultLevel(level)) IN
    IF persisted.threw
    THEN [threw |-> TRUE, timers |-> tm]
    ELSE LET key == persisted.value IN
         IF hasOwnProperty(tm, key)
         THEN LET currentMemory == getMemory(h, m)
                  timer == tm[key]
              IN [threw |-> FALSE,
                  timers |-> Put(tm, key,
                      [timer EXCEPT
                          !.time = getElapsedTime(h, t, timer.startTime),
                          !.totalMemory = Max(timer.totalMemory, currentMemory),
                          !.memory = currentMemory - timer.startMemory])]
         ELSE [threw |-> FALSE, timers |-> tm]

\* a timeEnd that makes the record it does not find
timeEndImplCreates(tm, h, label, level, t, m) ==
    LET persisted == getPersistedLabel(label, defaultLevel(level)) IN
    IF persisted.threw
    THEN [threw |-> TRUE, timers |-> tm]
    ELSE LET key == persisted.value
             currentMemory == getMemory(h, m)
             timer == IF hasOwnProperty(tm, key)
                      THEN tm[key]
                      ELSE [newTimer EXCEPT !.startTime = getStartTime(h, t),
                                            !.startMemory = currentMemory]
         IN [threw |-> FALSE,
             timers |-> Put(tm, key,
                 [timer EXCEPT
                     !.time = timer.time + getElapsedTime(h, t, timer.startTime),
                     !.totalMemory = Max(timer.totalMemory, currentMemory),
                     !.memory = timer.memory + (currentMemory - timer.startMemory)])]

timeEndImpl(tm, h, label, level, t, m) ==
    LET persisted == getPersistedLabel(label, defaultLevel(level)) IN
    IF persisted.threw
    THEN [threw |-> TRUE, timers |-> tm]
    ELSE LET key == persisted.value IN
         IF hasOwnProperty(tm, key)
         THEN LET currentMemory == getMemory(h, m)
                  timer == tm[key]
              IN [threw |-> FALSE,
                  timers |-> Put(tm, key,
                      [timer EXCEPT
                          !.time = timer.time + getElapsedTime(h, t, timer.startTime),
                          !.totalMemory = Max(timer.totalMemory, currentMemory),
                          !.memory = timer.memory + (currentMemory - timer.startMemory)])]
         ELSE [threw |-> FALSE, timers |-> tm]

getTimingsOf(tm) ==
    [label \in DOMAIN tm |-> <<tm[label].time, tm[label].memory, tm[label].totalMemory>>]

getTimings == getTimingsOf(timers)

(***************************************************************************)
(* The span registry, lines 156-179.  A span is what the tracer handed     *)
(* out, seen through the calls made on it: its attributes, how often end() *)
(* was called and whether an attribute was set after end().  The label is  *)
(* used as it is given: the level is ignored.  timeEndTraceImpl looks the  *)
(* label up in `timers` and then dereferences spans[label].                *)
(***************************************************************************)
newSpan ==
    [memory |-> 0, startMemory |-> NoValue, endMemory |-> NoValue,
     totalMemory |-> 0, ends |-> 0, late |-> FALSE]

setAttribute(span, attr, v) ==
    [[span EXCEPT ![attr] = v] EXCEPT !.late = span.late \/ span.ends > 0]

endSpan(span) == [span EXCEPT !.ends = span.ends + 1]

\* a timeStart that requests a span whether or not the label has one
timeStartTraceImplAlways(sp, h, label, m) ==
    [threw |-> FALSE,
     spans |-> Put(sp, label, setAttribute(newSpan, "startMemory", getMemory(h, m)))]

timeStartTraceImpl(sp, h, label, m) ==
    IF ~hasOwnProperty(sp, label)
    THEN LET currentMemory == getMemory(h, m)
         IN [threw |-> FALSE,
             spans |-> Put(sp, label, setAttribute(newSpan, "startMemory", currentMemory))]
    ELSE [threw |-> FALSE, spans |-> sp]

timeEndTraceImpl(sp, tm, h, label, m) ==
    IF hasOwnProperty(tm, label)
    THEN IF ~hasOwnProperty(sp, label)
         THEN [threw |-> TRUE, spans |-> sp]    \* TypeError: labeledSpan is undefined
         ELSE LET currentMemory == getMemory(h, m)
                  s1 == setAttribute(sp[label], "totalMemory",
                                     Max(tm[label].totalMemory, currentMemory))
                  s2 == setAttribute(s1, "endMemory", currentMemory)
              IN [threw |-> FALSE, spans |-> Put(sp, label, endSpan(s2))]
    ELSE [threw |-> FALSE, spans |-> sp]

(***************************************************************************)
(* The start/end cycles a caller has made on a persisted label since the   *)
(* registry was last reset: how many complete ones, what each measured,    *)
(* and whether the calls were anything but complete, non-overlapping       *)
(* cycles ("dirty"); `started` and `ended` say whether timeStart and       *)
(* timeEnd were called on the label at all.                                *)
(***************************************************************************)
Dirty == [st |-> "dirty", n |-> 0, startTime |-> 0, startMemory |-> 0,
          time |-> 0, memory |-> 0, peak |-> 0, started |-> FALSE, ended |-> FALSE]
Fresh == [st |-> "idle", n |-> 0, startTime |-> 0, startMemory |-> 0,
          time |-> 0, memory |-> 0, peak |-> NoValue, started |-> FALSE,
          ended |-> FALSE]

noteStart(cy, key, t, m) ==
    LET c == IF key \in DOMAIN cy THEN cy[key] ELSE Fresh IN
    Put(cy, key, IF c.st = "idle"
                 THEN [c EXCEPT !.st = "open", !.startTime = t, !.startMemory = m,
                                !.started = TRUE]
                 ELSE [Dirty EXCEPT !.started = TRUE, !.ended = c.ended])

noteEnd(cy, key, t, m) ==
    LET c == IF key \in DOMAIN cy THEN cy[key] ELSE Fresh IN
    Put(cy, key, IF c.st = "open"
                 THEN [c EXCEPT !.st = "idle", !.n = c.n + 1,
                                !.startTime = 0, !.startMemory = 0,
                                !.time = c.time + (t - c.startTime),
                                !.memory = c.memory + (m - c.startMemory),
                                !.peak = Max(c.peak, m), !.ended = TRUE]
                 ELSE [Dirty EXCEPT !.started = c.started, !.ended = TRUE])

(***************************************************************************)
(* A call through the exported slots, lines 95-96.  `r` carries the        *)
(* registries through the calls one handler makes.                         *)
(***************************************************************************)
callTimeStart(slot, r, h, label, level, t, m) ==
    CASE slot = "timeStartImpl" ->
            LET x == timeStartImpl(r.timers, h, label, level, t, m)
                p == getPersistedLabel(label, defaultLevel(level))
            IN [r EXCEPT !.timers = x.timers, !.threw = x.threw,
                         !.cycles = IF x.threw THEN @ ELSE noteStart(@, p.value, t, m)]
      [] slot = "timeStartTraceImpl" ->
            LET x == timeStartTraceImpl(r.spans, h, label, m)
            IN [r EXCEPT !.spans = x.spans, !.threw = x.threw]
      [] OTHER -> r

callTimeEnd(slot, r, h, label, level, t, m) ==
    CASE slot = "timeEndImpl" ->
            LET x == timeEndImpl(r.timers, h, label, level, t, m)
                p == getPersistedLabel(label, defaultLevel(level))
            IN [r EXCEPT !.timers = x.timers, !.threw = x.threw,
                         !.cycles = IF x.threw THEN @ ELSE noteEnd(@, p.value, t, m)]
      [] slot = "timeEndTraceImpl" ->
            LET x == timeEndTraceImpl(r.spans, r.timers, h, label, m)
            IN [r EXCEPT !.spans = x.spans, !.threw = x.threw]
      [] OTHER -> r

Registries == [timers |-> timers, spans |-> spans, cycles |-> cycles, threw |-> FALSE]

(***************************************************************************)
(* Plugins.  A plugin is an object (its reference) with own properties; a  *)
(* property holds a string, a function, or a wrapper built by              *)
(* getPluginWithTimers around a function.  Every initialiseTimers call is  *)
(* handed a list of plugins as their authors wrote them.                   *)
(***************************************************************************)
Str(v) == [kind |-> "string", v |-> v, of |-> ""]
Fn(v) == [kind |-> "function", v |-> v, of |-> ""]
Wrapper(timerLabel, fn) == [kind |-> "wrapper", v |-> timerLabel, of |-> fn.v]

PluginA == [ref |-> "A",
            props |-> [name |-> Str("p"), transform |-> Fn("A.transform"),
                       buildEnd |-> Fn("A.buildEnd")]]
PluginB == [ref |-> "B",
            props |-> [moduleParsed |-> Fn("B.moduleParsed"), buildEnd |-> Fn("B.buildEnd")]]
PluginLists == {<<PluginA, PluginB>>}

\* a hook too many on the allow-list
TIMED_PLUGIN_HOOKS_Plus ==
    {"load", "resolveDynamicImport", "resolveId", "transform", "buildEnd"}

TIMED_PLUGIN_HOOKS == {"load", "resolveDynamicImport", "resolveId", "transform"}

\* lines 110-114
timerLabelOf(plugin, index, hook) ==
    "plugin " \o ToString(index)
      \o (IF "name" \in DOMAIN plugin.props /\ plugin.props["name"].v # ""
          THEN " (" \o plugin.props["name"].v \o ")" ELSE "")
      \o " - " \o hook

\* lines 105-133: a new object, one property per own key of the plugin
getPluginWithTimers(plugin, index) ==
    [ref |-> "timed(" \o plugin.ref \o ")",
     props |-> [hook \in DOMAIN plugin.props |->
                  IF hook \in TIMED_PLUGIN_HOOKS
                  THEN Wrapper(timerLabelOf(plugin, index, hook), plugin.props[hook])
                  ELSE plugin.props[hook]]]

\* the tracing pass wrapping hooks as the timing pass does
getPluginWithSpanWrapping(plugin, index) == getPluginWithTimers(plugin, index)

\* lines 181-183
getPluginWithSpan(plugin, index) == plugin

\* Array.prototype.map: the callback gets the element and its 0-based index
mapTimers(list) == [i \in 1 .. Len(list) |-> getPluginWithTimers(list[i], i - 1)]
mapSpan(list) == [i \in 1 .. Len(list) |-> getPluginWithSpan(list[i], i - 1)]

wrappersOf(list) ==
    UNION {{list[i].props[hook] : hook \in {h \in DOMAIN list[i].props :
                                              list[i].props[h].kind = "wrapper"}} :
           i \in 1 .. Len(list)}

(***************************************************************************)
(* initialiseTimers, lines 135-154, as a function of the module's state    *)
(* and the inputOptions it is given.                                       *)
(***************************************************************************)
\* `else if (inputOptions.trace)`: perf wins when both flags are set
initialiseTimersPerfWins(st, inputOptions) ==
    IF inputOptions.perf
    THEN [st EXCEPT !.timers = EmptyMap, !.helpers = "set",
                    !.timeStart = "timeStartImpl", !.timeEnd = "timeEndImpl",
                    !.plugins = mapTimers(inputOptions.plugins)]
    ELSE IF inputOptions.trace
    THEN [st EXCEPT !.spans = EmptyMap, !.helpers = "set",
                    !.timeStart = "timeStartTraceImpl",
                    !.timeEnd = "timeEndTraceImpl",
                    !.plugins = mapSpan(inputOptions.plugins)]
    ELSE [st EXCEPT !.timeStart = "NOOP", !.timeEnd = "NOOP",
                    !.plugins = inputOptions.plugins]

initialiseTimers(st, inputOptions) ==
    LET perfDone ==
            IF inputOptions.perf
            THEN [st EXCEPT !.timers = EmptyMap, !.helpers = "set",
                            !.timeStart = "timeStartImpl", !.timeEnd = "timeEndImpl",
                            !.plugins = mapTimers(inputOptions.plugins)]
            ELSE [st EXCEPT !.timeStart = "NOOP", !.timeEnd = "NOOP",
                            !.plugins = inputOptions.plugins]
    IN  IF inputOptions.trace
        THEN [perfDone EXCEPT !.spans = EmptyMap, !.helpers = "set",
                              !.timeStart = "timeStartTraceImpl",
                              !.timeEnd = "timeEndTraceImpl",
                              !.plugins = mapSpan(perfDone.plugins)]
        ELSE perfDone

(***************************************************************************)
(* The wrapper of lines 115-127, called at clock reading t1.  The hook is  *)
(* the plugin author's: it returns a plain value, returns a promise, or    *)
(* throws (`outcome`), and comes back at clock reading t2.  m1, m2, m3 are *)
(* the heap readings the three timer calls take.  `out` is what the        *)
(* wrapper's caller gets.                                                  *)
(***************************************************************************)
\* the async timer started by the continuation instead of by the wrapper
wrapperLazyAsync(r, slotStart, slotEnd, h, timerLabel, outcome, t1, t2, m1, m2, m3) ==
    LET started == callTimeStart(slotStart, r, h, timerLabel, 4, t1, m1) IN
    IF started.threw THEN [r |-> started, out |-> "error", hookCalls |-> 0]
    ELSE IF outcome = "throw" THEN [r |-> started, out |-> "threw", hookCalls |-> 1]
    ELSE LET ended == callTimeEnd(slotEnd, started, h, timerLabel, 4, t2, m2) IN
         IF ended.threw THEN [r |-> ended, out |-> "error", hookCalls |-> 1]
         ELSE [r |-> ended, out |-> IF outcome = "promise" THEN "promise" ELSE "value",
               hookCalls |-> 1]

\* timeEnd in a `finally`: the timer is closed when the hook throws
wrapperFinally(r, slotStart, slotEnd, h, timerLabel, outcome, t1, t2, m1, m2, m3) ==
    LET started == callTimeStart(slotStart, r, h, timerLabel, 4, t1, m1) IN
    IF started.threw THEN [r |-> started, out |-> "error", hookCalls |-> 0]
    ELSE LET ended == callTimeEnd(slotEnd, started, h, timerLabel, 4, t2, m2) IN
         IF outcome = "throw" THEN [r |-> ended, out |-> "threw", hookCalls |-> 1]
         ELSE IF ended.threw THEN [r |-> ended, out |-> "error", hookCalls |-> 1]
         ELSE IF outcome = "promise"
         THEN LET async == callTimeStart(slotStart, ended, h,
                                         timerLabel \o " (async)", 4, t2, m3)
              IN [r |-> async, out |-> IF async.threw THEN "error" ELSE "promise",
                  hookCalls |-> 1]
         ELSE [r |-> ended, out |-> "value", hookCalls |-> 1]

\* timeEnd called before the hook instead of after it
wrapperEndFirst(r, slotStart, slotEnd, h, timerLabel, outcome, t1, t2, m1, m2, m3) ==
    LET started == callTimeStart(slotStart, r, h, timerLabel, 4, t1, m1) IN
    IF started.threw THEN [r |-> started, out |-> "error", hookCalls |-> 0]
    ELSE LET ended == callTimeEnd(slotEnd, started, h, timerLabel, 4, t1, m2) IN
         IF ended.threw THEN [r |-> ended, out |-> "error", hookCalls |-> 0]
         ELSE IF outcome = "throw" THEN [r |-> ended, out |-> "threw", hookCalls |-> 1]
         ELSE IF outcome = "promise"
         THEN LET async == callTimeStart(slotStart, ended, h,
                                         timerLabel \o " (async)", 4, t2, m3)
              IN [r |-> async, out |-> IF async.threw THEN "error" ELSE "promise",
                  hookCalls |-> 1]
         ELSE [r |-> ended, out |-> "value", hookCalls |-> 1]

wrapper(r, slotStart, slotEnd, h, timerLabel, outcome, t1, t2, m1, m2, m3) ==
    LET started == callTimeStart(slotStart, r, h, timerLabel, 4, t1, m1) IN
    IF started.threw THEN [r |-> started, out |-> "error", hookCalls |-> 0]
    ELSE IF outcome = "throw" THEN [r |-> started, out |-> "threw", hookCalls |-> 1]
    ELSE LET ended == callTimeEnd(slotEnd, started, h, timerLabel, 4, t2, m2) IN
         IF ended.threw THEN [r |-> ended, out |-> "error", hookCalls |-> 1]
         ELSE IF outcome = "promise"
         THEN LET async == callTimeStart(slotStart, ended, h,
                                         timerLabel \o " (async)", 4, t2, m3)
              IN [r |-> async, out |-> IF async.threw THEN "error" ELSE "promise",
                  hookCalls |-> 1]
         ELSE [r |-> ended, out |-> "value", hookCalls |-> 1]

\* a continuation that ends the timer twice
continuationTwice(r, slotEnd, h, timerLabel, t, m) ==
    callTimeEnd(slotEnd,
                callTimeEnd(slotEnd, r, h, timerLabel \o " (async)", 4, t, m),
                h, timerLabel \o " (async)", 4, t, m)

\* the continuation of lines 121-124, run when the hook's promise fulfils
continuation(r, slotEnd, h, timerLabel, t, m) ==
    callTimeEnd(slotEnd, r, h, timerLabel \o " (async)", 4, t, m)

(***************************************************************************)
(* The state machine.                                                      *)
(***************************************************************************)
Names == {"build"}
CallLevels == {NoValue}
Steps == {0, 1}                       \* clock ticks between two readings
Outcomes == {"value", "promise", "throw"}
Flags == BOOLEAN

\* op: the call; key: the label it was given; fn: the hook a wrapper stands for;
\* out: how the call came back
\* hookCalls, recv, args: how often the hook was called, on what receiver and
\* with what arguments
Event(op, key, level, out) ==
    [op |-> op, key |-> key, level |-> level, out |-> out, fn |-> "",
     hookCalls |-> 0, recv |-> "", args |-> <<>>]
HookEvent(w, res, recv, args) ==
    [op |-> "wrapper", key |-> w.v, level |-> 4, out |-> res.out, fn |-> w.of,
     hookCalls |-> res.hookCalls,
     recv |-> IF res.hookCalls = 0 THEN "" ELSE recv,
     args |-> IF res.hookCalls = 0 THEN <<>> ELSE args]

FmtNames == {"x", "build", "parse", "p", "plugin 0 (p) - transform",
             "plugin 1 - load", ""}
FmtLevels == {NoValue} \cup (0 .. MaxLevel)
FmtIdle == [threw |-> FALSE, value |-> "(not called)"]

InitModule ==
    /\ timeStart = "NOOP"
    /\ timeEnd = "NOOP"
    /\ helpers = "stub"
    /\ timers = EmptyMap
    /\ spans = EmptyMap
    /\ options = [perf |-> FALSE, trace |-> FALSE, plugins |-> <<>>]
    /\ given = <<>>
    /\ built = {}
    /\ pending = EmptyMap
    /\ now = 0
    /\ cycles = EmptyMap
    /\ last = Event("none", "", NoValue, "returned")
    /\ calls = 0

Init ==
    /\ InitModule
    /\ fmtIn = [name |-> "", level |-> NoValue]
    /\ fmtOut = FmtIdle

Initialise(perf, trace, list) ==
    LET st == [timers |-> timers, spans |-> spans, helpers |-> helpers,
               timeStart |-> timeStart, timeEnd |-> timeEnd, plugins |-> <<>>]
        new == initialiseTimers(st, [perf |-> perf, trace |-> trace, plugins |-> list])
    IN  /\ calls' = calls + 1
        /\ timers' = new.timers
        /\ spans' = new.spans
        /\ helpers' = new.helpers
        /\ timeStart' = new.timeStart
        /\ timeEnd' = new.timeEnd
        /\ options' = [perf |-> perf, trace |-> trace, plugins |-> new.plugins]
        /\ given' = list
        /\ built' = built \cup wrappersOf(new.plugins)
        /\ cycles' = EmptyMap
        /\ last' = Event("initialiseTimers", "", NoValue, "returned")
        /\ UNCHANGED <<pending, now, fmtIn, fmtOut>>

Commit(r) ==
    /\ calls' = calls + 1
    /\ timers' = r.timers
    /\ spans' = r.spans
    /\ cycles' = r.cycles

TimeStart(label, level, dt, m) ==
    LET t == now + dt
        r == callTimeStart(timeStart, Registries, helpers, label, level, t, m)
    IN  /\ now' = t
        /\ Commit(r)
        /\ last' = Event("timeStart", label, level, IF r.threw THEN "threw" ELSE "returned")
        /\ UNCHANGED <<timeStart, timeEnd, helpers, options, given, built, pending,
                       fmtIn, fmtOut>>

TimeEnd(label, level, dt, m) ==
    LET t == now + dt
        r == callTimeEnd(timeEnd, Registries, helpers, label, level, t, m)
    IN  /\ now' = t
        /\ Commit(r)
        /\ last' = Event("timeEnd", label, level, IF r.threw THEN "threw" ELSE "returned")
        /\ UNCHANGED <<timeStart, timeEnd, helpers, options, given, built, pending,
                       fmtIn, fmtOut>>

Count(f, k) == IF k \in DOMAIN f THEN f[k] ELSE 0
Less(f, k) == IF f[k] = 1 THEN [x \in DOMAIN f \ {k} |-> f[x]]
                          ELSE [f EXCEPT ![k] = @ - 1]

\* the wrapper reads the exported bindings when it is called (lines 116-122)
boundStartAtBuild(w) == "timeStartImpl"
boundStart(w) == timeStart
boundEnd(w) == timeEnd

\* line 117: the receiver and the arguments the hook is applied to
hookReceiver(thisArg) == IF thisArg = "timedPlugin" THEN "plugin" ELSE thisArg
hookArguments(args) == args

Receivers == {"timedPlugin", "pluginContext"}
Arguments == <<"code", "id">>

InvokeWrapper(w, thisArg, outcome, dt, m1, m2, m3) ==
    LET t2 == now + dt
        res == wrapper(Registries, boundStart(w), boundEnd(w), helpers, w.v, outcome,
                       now, t2, m1, m2, m3)
    IN  /\ now' = t2
        /\ Commit(res.r)
        /\ pending' = IF res.out = "promise"
                      THEN Put(pending, w.v, Count(pending, w.v) + 1)
                      ELSE pending
        /\ last' = HookEvent(w, res, hookReceiver(thisArg), hookArguments(Arguments))
        /\ UNCHANGED <<timeStart, timeEnd, helpers, options, given, built, fmtIn, fmtOut>>

Fulfil(timerLabel, dt, m) ==
    LET t == now + dt
        r == continuation(Registries, boundEnd(timerLabel), helpers, timerLabel, t, m)
    IN  /\ timerLabel \in DOMAIN pending
        /\ now' = t
        /\ Commit(r)
        /\ pending' = Less(pending, timerLabel)
        /\ last' = Event("fulfil", timerLabel, 4, IF r.threw THEN "threw" ELSE "returned")
        /\ UNCHANGED <<timeStart, timeEnd, helpers, options, given, built, fmtIn, fmtOut>>

\* a rejected promise skips the continuation: `then` was given no rejection handler
Reject(timerLabel, dt) ==
    /\ timerLabel \in DOMAIN pending
    /\ calls' = calls + 1
    /\ now' = now + dt
    /\ pending' = Less(pending, timerLabel)
    /\ last' = Event("reject", timerLabel, 4, "threw")
    /\ UNCHANGED <<timeStart, timeEnd, helpers, timers, spans, options, given, built,
                   cycles, fmtIn, fmtOut>>

Within(budget) == calls < budget

Next ==
    \/ \E perf \in Flags, trace \in Flags, list \in PluginLists :
          Within(MaxCalls) /\ Initialise(perf, trace, list)
    \/ \E label \in Names, level \in CallLevels, dt \in Steps, m \in Samples :
          Within(MaxCalls) /\ TimeStart(label, level, dt, m)
    \/ \E label \in Names, level \in CallLevels, dt \in Steps, m \in Samples :
          Within(MaxCalls) /\ TimeEnd(label, level, dt, m)
    \/ \E w \in built, thisArg \in Receivers, outcome \in Outcomes, dt \in Steps,
          m1 \in Samples, m2 \in Samples, m3 \in Samples :
          Within(MaxCalls) /\ InvokeWrapper(w, thisArg, outcome, dt, m1, m2, m3)
    \/ \E timerLabel \in DOMAIN pending, dt \in Steps, m \in Samples :
          Within(MaxCalls) /\ Fulfil(timerLabel, dt, m)
    \/ \E timerLabel \in DOMAIN pending, dt \in Steps :
          Within(MaxCalls) /\ Reject(timerLabel, dt)

Spec == Init /\ [][Next]_vars

(***************************************************************************)
(* One Timing activation after another, with the timer registry driven     *)
(* directly on more labels and for longer.                                 *)
(***************************************************************************)
CycleLevels == {NoValue, 4}

NextTiming ==
    \/ \E list \in PluginLists :
          Within(MaxCycleCalls) /\ Initialise(TRUE, FALSE, list)
    \/ \E label \in Names, level \in CycleLevels, dt \in Steps, m \in Samples :
          Within(MaxCycleCalls) /\ timeStart = "timeStartImpl"
             /\ TimeStart(label, level, dt, m)
    \/ \E label \in Names, level \in CycleLevels, dt \in Steps, m \in Samples :
          Within(MaxCycleCalls) /\ timeEnd = "timeEndImpl"
             /\ TimeEnd(label, level, dt, m)

SpecTiming == Init /\ [][NextTiming]_vars

(***************************************************************************)
(* The label formatter on its own: any name, any level (or none, which     *)
(* timeStartImpl and timeEndImpl turn into 3).                             *)
(***************************************************************************)
(***************************************************************************)
(* Direct calls of the bound slots across activations of any mode, deep    *)
(* enough for a span to be made, ended and used again after a Timing       *)
(* activation left its records behind.                                     *)
(***************************************************************************)
MaxTraceCalls == 6

NextTrace ==
    \/ \E perf \in Flags, trace \in Flags, list \in PluginLists :
          Within(MaxTraceCalls) /\ Initialise(perf, trace, list)
    \/ \E label \in Names, level \in CallLevels, dt \in Steps, m \in Samples :
          Within(MaxTraceCalls) /\ TimeStart(label, level, dt, m)
    \/ \E label \in Names, level \in CallLevels, dt \in Steps, m \in Samples :
          Within(MaxTraceCalls) /\ TimeEnd(label, level, dt, m)

SpecTrace == Init /\ [][NextTrace]_vars

InitFmt ==
    /\ InitModule
    /\ fmtIn \in [name : FmtNames, level : FmtLevels]
    /\ fmtOut = FmtIdle

FormatLabel ==
    /\ fmtOut = FmtIdle
    /\ fmtOut' = getPersistedLabel(fmtIn.name, defaultLevel(fmtIn.level))
    /\ UNCHANGED <<timeStart, timeEnd, helpers, timers, spans, options, given, built,
                   pending, now, cycles, last, fmtIn, calls>>

NextFmt == FormatLabel

SpecFmt == InitFmt /\ [][NextFmt]_vars

(***************************************************************************)
(* The properties.                                                         *)
(***************************************************************************)
Timing == timeStart = "timeStartImpl" /\ timeEnd = "timeEndImpl"
Accumulated(tm, k) == IF k \in DOMAIN tm THEN getTimingsOf(tm)[k] ELSE <<0, 0, 0>>

\* C1: in a Timing activation, after n >= 1 complete, non-overlapping
\* timeStart/timeEnd cycles on a label (with another start possibly open), the
\* label's entry in getTimings is <<the sum of the n elapsed intervals, the sum
\* of the n memory deltas, the largest memory sample taken at an end call>>.
C1_CyclesAddUp ==
    Timing =>
      \A k \in DOMAIN cycles :
         (cycles[k].st \in {"idle", "open"} /\ cycles[k].n >= 1) =>
            /\ k \in DOMAIN getTimings
            /\ getTimings[k] = <<cycles[k].time, cycles[k].memory, cycles[k].peak>>

C1_Witness ==
    /\ Timing
    /\ \E k \in DOMAIN cycles :
          /\ cycles[k].st = "idle" /\ cycles[k].n >= 2
          /\ cycles[k].time >= 2 /\ cycles[k].memory # 0 /\ cycles[k].peak = 1
          /\ getTimings[k] = <<cycles[k].time, cycles[k].memory, cycles[k].peak>>

\* C2 (as claimed): once an initialiseTimers call has selected Disabled mode,
\* whatever came before it, getTimings is empty and the options hold the very
\* plugins that were handed in.
C2_DisabledSnapshotEmpty ==
    (calls > 0 /\ ~options.perf /\ ~options.trace) =>
        /\ timeStart = "NOOP" /\ timeEnd = "NOOP"
        /\ DOMAIN getTimings = {}
        /\ options.plugins = given

\* the slots and the snapshot while both flags are set
C3_SlotsAndSnapshot ==
    (options.perf /\ options.trace) =>
        /\ timeStart = "timeStartTraceImpl" /\ timeEnd = "timeEndTraceImpl"
        /\ DOMAIN getTimings = {}

\* a timeStart call while both flags are set
C3_StartMakesSpan ==
    (options.perf /\ options.trace /\ last'.op = "timeStart") =>
        /\ timers' = timers
        /\ last'.key \in DOMAIN spans'
        /\ last'.key \notin DOMAIN spans => spans'[last'.key].ends = 0

\* C3: when both flags are set, Tracing wins: the slots hold the tracing
\* implementations and getTimings stays empty for the whole activation,
\* whatever timeStart/timeEnd calls and wrapper invocations are made, and a
\* timeStart on a label without a span puts a span in the span registry and
\* no record in the timer registry.
C3_TracingWins == []C3_SlotsAndSnapshot /\ [][C3_StartMakesSpan]_vars

C3_Witness ==
    /\ options.perf /\ options.trace
    /\ last.op = "wrapper" /\ last.out = "promise"
    /\ last.key \in DOMAIN spans /\ "build" \in DOMAIN spans

\* C4 (as claimed): the timer registry and the span registry are never both
\* non-empty, and right after an initialiseTimers call both are empty.
C4_RegistriesExclusive ==
    /\ ~(DOMAIN timers # {} /\ DOMAIN spans # {})
    /\ last.op = "initialiseTimers" => (DOMAIN timers = {} /\ DOMAIN spans = {})

NoWrapperIn(list) ==
    \A i \in 1 .. Len(list) : \A hook \in DOMAIN list[i].props :
        list[i].props[hook].kind # "wrapper"

\* C5 (as claimed): whenever trace is set, with perf set or not, the options
\* hold the very plugins that were handed in, no hook replaced by a wrapper.
C5_TracePassThrough ==
    options.trace => (options.plugins = given /\ NoWrapperIn(options.plugins))

\* C5 (amended): when trace is set and perf is not, the options hold the very
\* plugins that were handed in, no hook replaced by a wrapper; when perf is set
\* too, the plugins are new objects whose allow-listed hooks are wrappers.
C5_TraceOnlyPassThrough ==
    /\ (options.trace /\ ~options.perf) =>
          (options.plugins = given /\ NoWrapperIn(options.plugins))
    /\ (options.trace /\ options.perf) =>
          /\ Len(options.plugins) = Len(given)
          /\ \A i \in 1 .. Len(given) :
                /\ options.plugins[i].ref # given[i].ref
                /\ \A hook \in DOMAIN given[i].props \cap
                                {"load", "resolveDynamicImport", "resolveId", "transform"} :
                      options.plugins[i].props[hook].kind = "wrapper"

C5_Witness ==
    /\ options.trace /\ ~options.perf /\ Len(given) = 2
    /\ options.plugins = given
    /\ built # {}

\* C6: instrumenting in Timing mode keeps the number and the order of the
\* plugins and each plugin's own keys; every property not named load,
\* resolveDynamicImport, resolveId or transform is the very value the plugin
\* had, and each of those four is a wrapper around the plugin's own hook.
C6_OnlyTimedHooksWrapped ==
    (options.perf /\ ~options.trace) =>
        /\ Len(options.plugins) = Len(given)
        /\ \A i \in 1 .. Len(given) :
              /\ DOMAIN options.plugins[i].props = DOMAIN given[i].props
              /\ \A hook \in DOMAIN given[i].props :
                    IF hook \in {"load", "resolveDynamicImport", "resolveId", "transform"}
                    THEN /\ options.plugins[i].props[hook].kind = "wrapper"
                         /\ options.plugins[i].props[hook].of = given[i].props[hook].v
                    ELSE options.plugins[i].props[hook] = given[i].props[hook]

C6_Witness ==
    /\ options.perf /\ ~options.trace /\ Len(given) = 2
    /\ options.plugins[1].props["transform"].kind = "wrapper"
    /\ options.plugins[1].props["buildEnd"] = Fn("A.buildEnd")
    /\ options.plugins[2].props["buildEnd"] = Fn("B.buildEnd")

HookRan == last.op = "wrapper" /\ last.out \in {"value", "promise", "threw"}

\* C7 (as claimed): in Timing mode, after the wrapped transform hook of the
\* plugin named "p" at index 0 was invoked, getTimings has the key
\* "  - plugin 0 (p) - transform" (two spaces before the bullet).
C7_LabelIndented ==
    (Timing /\ HookRan /\ last.fn = "A.transform") =>
        "  - plugin 0 (p) - transform" \in DOMAIN getTimings

\* C7 (amended): in Timing mode, after the wrapped transform hook of the plugin
\* named "p" at index 0 was invoked, getTimings has the key
\* "- plugin 0 (p) - transform" (the bullet at the start of the label), and no
\* key "  - plugin 0 (p) - transform".
C7_LabelAtLevelFour ==
    (Timing /\ HookRan /\ last.fn = "A.transform") =>
        /\ "- plugin 0 (p) - transform" \in DOMAIN getTimings
        /\ "  - plugin 0 (p) - transform" \notin DOMAIN getTimings

C7_Witness ==
    /\ Timing /\ HookRan /\ last.fn = "A.transform" /\ last.out = "value"
    /\ options.plugins[1].props["name"] = Str("p")
    /\ "- plugin 0 (p) - transform" \in DOMAIN getTimings

AsyncKey(timerLabel) == "- " \o timerLabel \o " (async)"

\* C8 (as claimed): in Timing mode, when a wrapped hook has returned a promise,
\* the record of the label suffixed " (async)" is not in getTimings when the
\* wrapper returns.
C8_AsyncAbsentAtReturn ==
    (Timing /\ last.op = "wrapper" /\ last.out = "promise") =>
        AsyncKey(last.key) \notin DOMAIN getTimings

\* a wrapper returning a promise, and a promise fulfilling, in Timing mode
C8_AsyncStep ==
    /\ (Timing /\ last'.op = "wrapper" /\ last'.out = "promise") =>
          /\ AsyncKey(last'.key) \in DOMAIN timers'
          /\ getTimingsOf(timers')[AsyncKey(last'.key)]
                = Accumulated(timers, AsyncKey(last'.key))
          /\ timers'[AsyncKey(last'.key)].startTime = now'
    /\ (Timing /\ last'.op = "fulfil" /\ AsyncKey(last'.key) \in DOMAIN timers) =>
          /\ AsyncKey(last'.key) \in DOMAIN timers'
          /\ timers'[AsyncKey(last'.key)].time
                = timers[AsyncKey(last'.key)].time
                    + (now' - timers[AsyncKey(last'.key)].startTime)

\* C8 (amended): in Timing mode, when a wrapped hook returns a promise, the
\* record of the label suffixed " (async)" is in getTimings from the moment the
\* wrapper returns, with the time, memory and peak it had before the call
\* (zeros when the label is new) and its start timestamp set to that moment;
\* the promise's fulfilment adds the time since the record's start to it.
C8_AsyncPresentAtReturn == [][C8_AsyncStep]_vars

C8_Witness ==
    /\ Timing /\ last.op = "wrapper" /\ last.out = "promise"
    /\ last.key \in DOMAIN pending
    /\ AsyncKey(last.key) \in DOMAIN getTimings
    /\ getTimings[AsyncKey(last.key)] = <<0, 0, 0>>

RECURSIVE Spaces(_)
Spaces(n) == IF n <= 0 THEN "" ELSE " " \o Spaces(n - 1)

Formatted == fmtOut # FmtIdle

\* C9 (as claimed): the formatter returns a label, and raises nothing, for
\* every name and every level >= 0 (or no level).
C9_TotalFromZero ==
    (Formatted /\ (fmtIn.level = NoValue \/ fmtIn.level >= 0)) => ~fmtOut.threw

\* C9 (amended): the formatter returns a label, and raises nothing, for every
\* name and every level >= 1 (or no level): "# name" at 1, "## name" at 2,
\* "name" at 3 and at no level, and above 3 the name after 2*(level-4) spaces
\* and "- ".
C9_TotalFromOne ==
    (Formatted /\ (fmtIn.level = NoValue \/ fmtIn.level >= 1)) =>
        /\ ~fmtOut.threw
        /\ fmtOut.value =
              CASE fmtIn.level = 1 -> "# " \o fmtIn.name
                [] fmtIn.level = 2 -> "## " \o fmtIn.name
                [] fmtIn.level \in {3, NoValue} -> fmtIn.name
                [] OTHER -> Spaces(2 * (fmtIn.level - 4)) \o "- " \o fmtIn.name

C9_Witness ==
    /\ Formatted /\ fmtIn = [name |-> "x", level |-> 5]
    /\ fmtOut = Returned("  - x")

SyncKey(timerLabel) == "- " \o timerLabel

\* a wrapper whose hook throws, in Timing mode
C10_ThrowStep ==
    (Timing /\ last'.op = "wrapper" /\ last'.out = "threw") =>
        /\ SyncKey(last'.key) \in DOMAIN timers'
        /\ getTimingsOf(timers')[SyncKey(last'.key)]
              = Accumulated(timers, SyncKey(last'.key))
        /\ timers'[SyncKey(last'.key)].startTime = now
        /\ DOMAIN timers' = DOMAIN timers \cup {SyncKey(last'.key)}
        /\ \A k \in DOMAIN timers : k # SyncKey(last'.key) => timers'[k] = timers[k]
        /\ pending' = pending

\* C10: in Timing mode, when the hook of a wrapper throws, the wrapper's caller
\* gets the failure, and the label's record is left open: its time, memory and
\* peak are what they were before the call (zeros when the label is new), its
\* start timestamp is the time of the call, no other record changes, no
\* " (async)" record is created or touched, and no continuation is registered.
C10_ThrowLeavesIntervalOpen == [][C10_ThrowStep]_vars

C10_Witness ==
    /\ Timing /\ last.op = "wrapper" /\ last.out = "threw"
    /\ SyncKey(last.key) \in DOMAIN timers
    /\ timers[SyncKey(last.key)].time = 1
    /\ timers[SyncKey(last.key)].startTime = 2
    /\ now = 3

(***************************************************************************)
(* The continuation of a deferred result (lines 119-126).                  *)
(***************************************************************************)
AsyncOpen(timerLabel) ==
    /\ Timing
    /\ AsyncKey(timerLabel) \in DOMAIN cycles
    /\ cycles[AsyncKey(timerLabel)].st = "open"
    /\ AsyncKey(timerLabel) \in DOMAIN timers

AsyncEndedOnce(timerLabel) ==
    /\ cycles'[AsyncKey(timerLabel)].st = "idle"
    /\ cycles'[AsyncKey(timerLabel)].n = cycles[AsyncKey(timerLabel)].n + 1
    /\ timers'[AsyncKey(timerLabel)].time
          = timers[AsyncKey(timerLabel)].time
               + (now' - timers[AsyncKey(timerLabel)].startTime)

\* C11 (as claimed): in Timing mode, when the promise a wrapped hook returned
\* settles, by fulfilling or by rejecting, while the interval of the label
\* suffixed " (async)" is open, timeEnd is called once on that label.
C11_EndsOnSettle ==
    [][(last'.op \in {"fulfil", "reject"} /\ AsyncOpen(last'.key))
          => AsyncEndedOnce(last'.key)]_vars

C11_SettleStep ==
    /\ (last'.op = "fulfil" /\ AsyncOpen(last'.key)) =>
          /\ AsyncEndedOnce(last'.key)
          /\ last'.out = "returned"
          /\ Count(pending', last'.key) = Count(pending, last'.key) - 1
    /\ last'.op = "reject" =>
          /\ timers' = timers /\ spans' = spans /\ cycles' = cycles
          /\ last'.out = "threw"
          /\ Count(pending', last'.key) = Count(pending, last'.key) - 1

\* C11 (amended): in Timing mode, when the promise a wrapped hook returned
\* fulfils while the interval of the label suffixed " (async)" is open, the
\* continuation calls timeEnd once on that label, adding the time since the
\* record's start, and the caller gets the fulfilment; when the promise rejects
\* the continuation does not run: no timer call is made, both registries stay
\* as they were, the interval stays open and the caller gets the rejection.
C11_EndsOnFulfilOnly == [][C11_SettleStep]_vars

C11_Witness ==
    /\ Timing /\ last.op = "fulfil" /\ last.out = "returned"
    /\ AsyncKey(last.key) \in DOMAIN cycles
    /\ cycles[AsyncKey(last.key)].st = "idle"
    /\ cycles[AsyncKey(last.key)].n = 1
    /\ timers[AsyncKey(last.key)].time = 1

(***************************************************************************)
(* Spans (lines 156-179).                                                  *)
(***************************************************************************)
Tracing == timeStart = "timeStartTraceImpl" /\ timeEnd = "timeEndTraceImpl"

\* C12: in Tracing mode, after timeEnd(label) on a label that timeStart made
\* a span for, the span has its endMemory set and has been ended, whatever the
\* timer registry holds.
C12_EndClosesSpan ==
    (Tracing /\ last.op = "timeEnd" /\ last.key \in DOMAIN spans) =>
        /\ spans[last.key].ends >= 1
        /\ spans[last.key].endMemory # NoValue

\* C13: once end() was called on a span, no attribute is set on it again and
\* end() is not called on it again.
C13_EndIsTerminal ==
    \A label \in DOMAIN spans :
        spans[label].ends <= 1 /\ ~spans[label].late

(***************************************************************************)
(* The records of one Timing activation (lines 61-93).                     *)
(***************************************************************************)
\* the formatted labels timeStart was called on since the last initialization
Started == {k \in DOMAIN cycles : cycles[k].started}

\* the formatted label a call event is about
EventKey(e) ==
    IF e.op = "fulfil" THEN AsyncKey(e.key)
    ELSE IF e.level = 4 THEN "- " \o e.key
    ELSE e.key

C14_LabelsAreStarted == Timing => DOMAIN getTimings = Started

C14_StrayEndStep ==
    (Timing /\ last'.op \in {"timeEnd", "fulfil"} /\ EventKey(last') \notin Started)
        => (timers' = timers /\ last'.out = "returned")

\* C14: in Timing mode, timeEnd on a label that timeStart was not called on
\* since the last initialization makes no record and changes none, and the
\* labels of getTimings are exactly the formatted labels timeStart was called on
\* since that initialization.
C14_StrayEndIsNoOp == []C14_LabelsAreStarted /\ [][C14_StrayEndStep]_vars

C14_Witness ==
    /\ Timing /\ last.op = "timeEnd"
    /\ last.key \notin DOMAIN getTimings
    /\ DOMAIN getTimings = Started
    /\ Started # {}

C15_LabelStep ==
    (Timing /\ last'.op \in {"timeStart", "timeEnd"}) =>
        /\ \A k \in DOMAIN timers :
              k # EventKey(last') => (k \in DOMAIN timers' /\ timers'[k] = timers[k])
        /\ (last'.op = "timeStart" /\ EventKey(last') \in DOMAIN timers) =>
              /\ timers'[EventKey(last')].startTime = now'
              /\ timers'[EventKey(last')].startMemory \in Samples
              /\ timers'[EventKey(last')]
                    = [timers[EventKey(last')] EXCEPT
                          !.startTime = now',
                          !.startMemory = timers'[EventKey(last')].startMemory]
        /\ (last'.op = "timeEnd" /\ EventKey(last') \in DOMAIN timers) =>
              /\ timers'[EventKey(last')].startTime = timers[EventKey(last')].startTime
              /\ timers'[EventKey(last')].startMemory
                    = timers[EventKey(last')].startMemory
              /\ timers'[EventKey(last')].time
                    = timers[EventKey(last')].time
                        + (now' - timers[EventKey(last')].startTime)

\* C15: in Timing mode a timeStart or timeEnd on one label leaves the record of
\* every other label as it was; a timeStart on a label whose interval is open
\* replaces the record's start timestamp and start memory and keeps its time,
\* memory and peak; every timeEnd keeps the start and adds the time since the
\* latest start.
C15_RecordsIndependent == [][C15_LabelStep]_vars

C15_Witness ==
    /\ Timing /\ last.op = "timeEnd" /\ last.key = "build" /\ last.level = NoValue
    /\ "- build" \in DOMAIN timers /\ "build" \in DOMAIN timers
    /\ "build" \in DOMAIN cycles /\ cycles["build"].st = "dirty"
    /\ timers["build"].startTime = 1 /\ timers["build"].time = 3 /\ now = 3

(***************************************************************************)
(* Wrapped hooks (lines 105-133).                                          *)
(***************************************************************************)
C16_DispatchStep ==
    last'.op = "wrapper" =>
        /\ last'.hookCalls = 1
        /\ (timeStart = "NOOP" /\ timeEnd = "NOOP") =>
              (timers' = timers /\ spans' = spans)
        /\ Tracing =>
              /\ timers' = timers
              /\ last'.key \in DOMAIN spans'
              /\ last'.out = "promise" => (last'.key \o " (async)") \in DOMAIN spans'

\* C16: a wrapper calls the operations bound when it is invoked, whatever was
\* bound when it was built: invoked while the no-ops are bound it changes
\* neither registry, invoked while the span operations are bound it makes spans
\* and no timer record, and in both cases it calls the original hook once.
C16_WrapperUsesBoundSlots == [][C16_DispatchStep]_vars

C16_Witness ==
    /\ Tracing /\ ~options.perf
    /\ last.op = "wrapper" /\ last.out = "promise" /\ last.hookCalls = 1
    /\ last.fn = "A.transform"
    /\ (last.key \o " (async)") \in DOMAIN spans
    /\ timers = EmptyMap

TimeOf(tm, k) == IF k \in DOMAIN tm THEN tm[k].time ELSE 0

C17_OrderStep ==
    (Timing /\ last'.op = "wrapper" /\ last'.out \in {"value", "promise"}) =>
        /\ last'.hookCalls = 1
        /\ last'.args = Arguments
        /\ last'.recv \in {"plugin", "pluginContext"}
        /\ SyncKey(last'.key) \in DOMAIN timers'
        /\ timers'[SyncKey(last'.key)].startTime = now
        /\ timers'[SyncKey(last'.key)].time
              = TimeOf(timers, SyncKey(last'.key)) + (now' - now)
        /\ last'.out = "promise" =>
              /\ AsyncKey(last'.key) \in DOMAIN timers'
              /\ timers'[AsyncKey(last'.key)].startTime = now'
              /\ timers'[AsyncKey(last'.key)].time
                    = TimeOf(timers, AsyncKey(last'.key))
              /\ Count(pending', last'.key) = Count(pending, last'.key) + 1
        /\ last'.out = "value" =>
              /\ DOMAIN timers' = DOMAIN timers \cup {SyncKey(last'.key)}
              /\ AsyncKey(last'.key) \in DOMAIN timers =>
                    timers'[AsyncKey(last'.key)] = timers[AsyncKey(last'.key)]
              /\ pending' = pending

\* C17: in Timing mode, a wrapper that returns normally has started the timer
\* of its label (level 4) at the moment of the call, called the original hook
\* once with the arguments it was given, on the original plugin when it was
\* called on the wrapped plugin and on its own receiver otherwise, and ended
\* the timer after the hook returned; when the hook returned a promise it then
\* started the timer of the label suffixed " (async)", and when the hook
\* returned anything else it returned that value and started no other timer.
C17_WrapperOrder == [][C17_OrderStep]_vars

C17_Witness ==
    /\ Timing /\ last.op = "wrapper" /\ last.out = "value"
    /\ last.hookCalls = 1 /\ last.recv = "plugin" /\ last.args = Arguments
    /\ timers[SyncKey(last.key)].time = 1
    /\ AsyncKey(last.key) \notin DOMAIN timers

C18_ZeroUntilEnd ==
    Timing => \A k \in DOMAIN timers :
                 (k \in DOMAIN cycles /\ ~cycles[k].ended) =>
                     (timers[k].time = 0 /\ timers[k].memory = 0)

C18_MonotoneStep ==
    (Timing /\ last'.op # "initialiseTimers") =>
        \A k \in DOMAIN timers :
            /\ k \in DOMAIN timers'
            /\ last'.op = "timeStart" =>
                  (timers'[k].time = timers[k].time
                     /\ timers'[k].memory = timers[k].memory)
            /\ timers'[k].time >= timers[k].time
            /\ timers'[k].memory >= timers[k].memory

\* C18 (as claimed): within one Timing activation the time and the memory delta
\* of every record are zero until the label's first timeEnd, are not changed by
\* timeStart, and never decrease.
C18_AccumulatorsNeverDecrease == []C18_ZeroUntilEnd /\ [][C18_MonotoneStep]_vars

C18_AccumulateStep ==
    (Timing /\ last'.op # "initialiseTimers") =>
        \A k \in DOMAIN timers :
            /\ k \in DOMAIN timers'
            /\ (last'.op # "timeEnd" \/ k # EventKey(last')) =>
                  (timers'[k].time = timers[k].time
                     /\ timers'[k].memory = timers[k].memory
                     /\ timers'[k].totalMemory = timers[k].totalMemory)
            /\ timers'[k].time >= timers[k].time
            /\ timers'[k].totalMemory >= timers[k].totalMemory
            /\ \E m \in Samples :
                  timers'[k].memory \in {timers[k].memory,
                                         timers[k].memory + (m - timers[k].startMemory)}

\* C18 (amended): within one Timing activation the time and the memory delta of
\* every record are zero until the label's first timeEnd and are changed only
\* by a timeEnd on the label; the time and the peak never decrease, and each
\* timeEnd adds to the memory delta the memory sample at the end minus the one
\* at the start, which is negative when memory was released in between.
C18_TimeNeverDecreases == []C18_ZeroUntilEnd /\ [][C18_AccumulateStep]_vars

C18_Witness ==
    /\ Timing /\ last.op = "timeEnd"
    /\ EventKey(last) \in DOMAIN timers
    /\ timers[EventKey(last)].memory < 0
    /\ timers[EventKey(last)].time > 0

C19_StartStep ==
    /\ (Tracing /\ last'.op = "timeStart") =>
          /\ last'.out = "returned"
          /\ timers' = timers
          /\ IF last'.key \in DOMAIN spans
             THEN spans' = spans
             ELSE \E m \in Samples :
                     spans' = Put(spans, last'.key,
                                  [newSpan EXCEPT !.startMemory = m])
    /\ (Tracing /\ last'.op # "initialiseTimers") =>
          \A label \in DOMAIN spans :
              /\ label \in DOMAIN spans'
              /\ spans'[label].startMemory = spans[label].startMemory
              /\ spans'[label].memory = spans[label].memory

\* C19: in Tracing mode, timeStart on a label that has a span, open or ended,
\* requests no span, sets no attribute and leaves the span registry as it was;
\* timeStart on a label without one stores one new span with the initial
\* attributes and the start memory, and no later call of the activation
\* changes a span's start memory.
C19_OneSpanPerLabel == [][C19_StartStep]_vars

C19_Witness ==
    /\ Tracing /\ last.op = "timeStart"
    /\ last.key \in DOMAIN spans
    /\ spans[last.key].ends = 1
    /\ ~spans[last.key].late

\* C20: in every mode, after any initializations, a call of the bound timeStart
\* or timeEnd on any label returns normally.
C20_SlotsNeverRaise ==
    last.op \in {"timeStart", "timeEnd"} => last.out = "returned"

====
